---- MODULE Spec2Model ----
(***************************************************************************)
(* Model of src/src/lib.rs (shapeshift-rust): the path flattener, the      *)
(* cosine-similarity scorer, find_closest_match and the shapeshift loop.   *)
(*                                                                         *)
(* Text is a sequence of one-character strings, so that split('.') and     *)
(* format!("{}.{}") are computed, not assumed.  A serde_json::Value is a   *)
(* record [kind, val]; an object's val is a function from member names to  *)
(* Values.  f64 quantities are modelled as exact reals: a similarity is    *)
(* the pair (num, den2) standing for num / sqrt(den2), or NaN; vector      *)
(* components are the source's tenths as integers (cosine is invariant     *)
(* under that scaling); a threshold is an integer number of hundredths.    *)
(* Rounding of f64 arithmetic is not modelled.                             *)
(***************************************************************************)
EXTENDS Integers, Sequences, FiniteSets, TLC

VARIABLES
    source_obj,            \* shapeshift's source_obj / the tests' input value
    target_obj,            \* shapeshift's target_obj
    similarity_threshold,  \* self.similarity_threshold, in hundredths
    flat_source,           \* HashMap<String, Value>
    flat_target,
    source_keys,           \* Vec<String>, in the HashMap's iteration order
    target_keys,
    source_embeddings,     \* Vec<Vec<f64>>
    target_embeddings,
    transformed,           \* the result accumulator
    used_source_keys,      \* HashSet<String>
    target_idx,            \* position of the target loop (1-based)
    matched,               \* the loop's log lines: one entry per target key
    unflattened,           \* test_flatten_and_unflatten: unflatten's result
    source_embedding,      \* find_closest_match's first argument
    closest_match,         \* find_closest_match's result
    pc

vars == <<source_obj, target_obj, similarity_threshold, flat_source, flat_target,
          source_keys, target_keys, source_embeddings, target_embeddings,
          transformed, used_source_keys, target_idx, matched, unflattened,
          source_embedding, closest_match, pc>>

(***************************************************************************)
(* Bounds of the checked inputs.                                           *)
(***************************************************************************)
MaxMembers == 2
MaxCandidates == 3

(***************************************************************************)
(* Text.                                                                   *)
(***************************************************************************)
\* The characters used, in ascending byte order ('.' < '_' < 'a' < ... ).
Alphabet == <<".", "_", "a", "b", "c", "d", "e", "f", "g", "i", "l", "m",
              "n", "o", "r", "s", "t", "u", "x", "y">>

CharCode(c) == CHOOSE i \in 1..Len(Alphabet) : Alphabet[i] = c

\* Ord for str: lexicographic on bytes.
RECURSIVE StrLess(_, _)
StrLess(a, b) ==
    IF b = <<>> THEN FALSE
    ELSE IF a = <<>> THEN TRUE
    ELSE IF Head(a) = Head(b) THEN StrLess(Tail(a), Tail(b))
    ELSE CharCode(Head(a)) < CharCode(Head(b))

EmptyString == <<>>
Dot == <<".">>

\* str::split('.'): always at least one part; "" splits to [""].
RECURSIVE SplitFrom(_, _, _)
SplitFrom(s, i, cur) ==
    IF i > Len(s) THEN <<cur>>
    ELSE IF s[i] = "." THEN <<cur>> \o SplitFrom(s, i + 1, <<>>)
    ELSE SplitFrom(s, i + 1, Append(cur, s[i]))

Split(s) == SplitFrom(s, 1, <<>>)

\* str::contains('.')
ContainsDot(s) == \E i \in 1..Len(s) : s[i] = "."

\* The keys and member names of the inputs and of the mock embedding table.
S_name == <<"n", "a", "m", "e">>
S_full_name == <<"f", "u", "l", "l", "_", "n", "a", "m", "e">>
S_age == <<"a", "g", "e">>
S_years_old == <<"y", "e", "a", "r", "s", "_", "o", "l", "d">>
S_city == <<"c", "i", "t", "y">>
S_country == <<"c", "o", "u", "n", "t", "r", "y">>
S_location == <<"l", "o", "c", "a", "t", "i", "o", "n">>
S_location_city == S_location \o Dot \o S_city
S_location_country == S_location \o Dot \o S_country
S_address == <<"a", "d", "d", "r", "e", "s", "s">>
S_a == <<"a">>
S_b == <<"b">>
S_a_b == <<"a", ".", "b">>
S_x == <<"x">>

(***************************************************************************)
(* serde_json::Value.                                                      *)
(***************************************************************************)
Null == [kind |-> "null", val |-> <<>>]
Str(s) == [kind |-> "string", val |-> s]
Num(n) == [kind |-> "number", val |-> n]
Arr(items) == [kind |-> "array", val |-> items]
Obj(m) == [kind |-> "object", val |-> m]

EmptyMap == [k \in {} |-> Null]
EmptyObject == Obj(EmptyMap)

is_object(v) == v.kind = "object"

\* Map::insert / HashMap::insert: the last write wins.
MapInsert(m, k, v) == [x \in (DOMAIN m) \cup {k} |-> IF x = k THEN v ELSE m[x]]

\* The iteration order of serde_json::Map (a BTreeMap): ascending keys.
RECURSIVE SortedKeys(_)
SortedKeys(ks) ==
    IF ks = {} THEN <<>>
    ELSE LET least == CHOOSE k \in ks : \A o \in ks \ {k} : StrLess(k, o)
         IN <<least>> \o SortedKeys(ks \ {least})

\* Value's Index<&str>: the member of an object, Null for anything else.
ValueIndex(v, part) ==
    IF is_object(v) /\ part \in DOMAIN v.val THEN v.val[part] ELSE Null

(***************************************************************************)
(* Path flattener.                                                         *)
(***************************************************************************)
RECURSIVE flatten_recursive(_, _, _)
RECURSIVE FlattenMembers(_, _, _, _)

\* lib.rs 58-74
flatten_recursive(obj, prefix, flat_map) ==
    IF is_object(obj)
    THEN FlattenMembers(obj.val, SortedKeys(DOMAIN obj.val), prefix, flat_map)
    ELSE MapInsert(flat_map, prefix, obj)

\* Mutation of FlattenMembers: the member's name alone is the new prefix.
RECURSIVE FlattenMembersNoPrefix(_, _, _, _)
FlattenMembersNoPrefix(map, keys, prefix, flat_map) ==
    IF keys = <<>> THEN flat_map
    ELSE FlattenMembersNoPrefix(map, Tail(keys), prefix,
                                flatten_recursive(map[Head(keys)], Head(keys), flat_map))

\* lib.rs 61-68: the loop over the members
FlattenMembers(map, keys, prefix, flat_map) ==
    IF keys = <<>> THEN flat_map
    ELSE LET key == Head(keys)
             new_prefix == IF prefix = EmptyString THEN key
                           ELSE prefix \o Dot \o key
         IN FlattenMembers(map, Tail(keys), prefix,
                           flatten_recursive(map[key], new_prefix, flat_map))

\* lib.rs 52-56
flatten_object(obj) == flatten_recursive(obj, EmptyString, EmptyMap)

\* The outcome of a call that panicked.
Panicked == [kind |-> "panic", val |-> <<>>]

\* lib.rs 81-91: one key of unflatten_object, walked from the object `current`.
\* as_object_mut().unwrap() panics when the entry found is not an object.
RECURSIVE UnflattenInsert(_, _, _)
UnflattenInsert(current, parts, value) ==
    IF Len(parts) = 1 THEN Obj(MapInsert(current.val, parts[1], value))
    ELSE LET part == parts[1]
             entry == IF part \in DOMAIN current.val THEN current.val[part]
                      ELSE EmptyObject
         IN IF ~is_object(entry) THEN Panicked
            ELSE LET sub == UnflattenInsert(entry, Tail(parts), value)
                 IN IF sub = Panicked THEN Panicked
                    ELSE Obj(MapInsert(current.val, part, sub))

\* lib.rs 76-94, for one iteration order of the HashMap
RECURSIVE UnflattenLoop(_, _, _)
UnflattenLoop(flat_obj, order, result) ==
    IF result = Panicked \/ order = <<>> THEN result
    ELSE UnflattenLoop(flat_obj, Tail(order),
                       UnflattenInsert(result, Split(Head(order)), flat_obj[Head(order)]))

unflatten_object(flat_obj, order) == UnflattenLoop(flat_obj, order, EmptyObject)

\* HashMap::keys(): the keys, in an order the hasher's random state decides.
RECURSIVE Orders(_)
Orders(ks) ==
    IF ks = {} THEN {<<>>}
    ELSE UNION {{<<k>> \o o : o \in Orders(ks \ {k})} : k \in ks}

(***************************************************************************)
(* Similarity scorer.                                                      *)
(***************************************************************************)
RECURSIVE SumTo(_, _)
SumTo(f, n) == IF n = 0 THEN 0 ELSE f[n] + SumTo(f, n - 1)

Min(a, b) == IF a < b THEN a ELSE b

\* lib.rs 29-34.  zip stops at the shorter vector.  The quotient is kept as
\* num / sqrt(den2); 0.0 / 0.0 is NaN.
Quotient(dot_product, magnitudes_sq) ==
    [nan |-> magnitudes_sq = 0, num |-> dot_product, den2 |-> magnitudes_sq]

cosine_similarity(vec1, vec2) ==
    LET n == Min(Len(vec1), Len(vec2))
        dot_product == SumTo([i \in 1..n |-> vec1[i] * vec2[i]], n)
        magnitude1_sq == SumTo([i \in 1..Len(vec1) |-> vec1[i] * vec1[i]], Len(vec1))
        magnitude2_sq == SumTo([i \in 1..Len(vec2) |-> vec2[i] * vec2[i]], Len(vec2))
    IN Quotient(dot_product, magnitude1_sq * magnitude2_sq)

is_nan(x) == x.nan

Abs(n) == IF n < 0 THEN -n ELSE n

\* f64::partial_cmp: None when either side is NaN.  x -> x*|x| is increasing,
\* so num/sqrt(den2) is compared through num*|num|/den2.
partial_cmp(a, b) ==
    IF is_nan(a) \/ is_nan(b) THEN "None"
    ELSE LET l == a.num * Abs(a.num) * b.den2
             r == b.num * Abs(b.num) * a.den2
         IN IF l < r THEN "Less" ELSE IF l > r THEN "Greater" ELSE "Equal"

\* Mutation of GeThreshold: every defined similarity is accepted.
GeThresholdAlways(similarity, threshold) == ~similarity.nan

\* Mutation of GeThreshold: the comparison is reversed.
GeThresholdReversed(similarity, threshold) ==
    /\ ~similarity.nan
    /\ similarity.num * (IF similarity.num < 0 THEN -similarity.num ELSE similarity.num) * 10000
          <= threshold * (IF threshold < 0 THEN -threshold ELSE threshold) * similarity.den2

\* lib.rs 43: similarity >= threshold (false for NaN); threshold in hundredths.
GeThreshold(similarity, threshold) ==
    /\ ~is_nan(similarity)
    /\ similarity.num * Abs(similarity.num) * 10000
          >= threshold * Abs(threshold) * similarity.den2

\* Option
None == <<>>
Some(x) == <<x>>

\* lib.rs 41: the comparison handed to max_by
Compare(a, b) ==
    LET c == partial_cmp(a, b) IN IF c = "None" THEN "Equal" ELSE c

\* Iterator::max_by: reduce(|x, y| match compare(&x, &y) { Greater => x, _ => y })
RECURSIVE MaxByFrom(_, _, _)
MaxByFrom(sims, i, best) ==
    IF i > Len(sims) THEN best
    ELSE MaxByFrom(sims, i + 1,
                   IF Compare(sims[best], sims[i]) = "Greater" THEN best ELSE i)

max_by(sims) == IF sims = <<>> THEN None ELSE Some(MaxByFrom(sims, 2, 1))

\* lib.rs 42-49: the maximum is kept when it reaches the threshold.
\* Indices are the source's (0-based).
ThresholdFilter(threshold, sims, best) ==
    IF best = None THEN None
    ELSE IF GeThreshold(sims[best[1]], threshold) THEN Some(best[1] - 1)
    ELSE None

\* lib.rs 41-49
SelectClosest(threshold, sims) == ThresholdFilter(threshold, sims, max_by(sims))

\* lib.rs 36-50
find_closest_match(threshold, query, embeddings) ==
    SelectClosest(threshold,
                  [i \in 1..Len(embeddings) |-> cosine_similarity(query, embeddings[i])])

\* lib.rs 198-210: the mock embedding table, in tenths
Embedding(text) ==
    IF text \in {S_name, S_full_name} THEN <<9, 1, 0, 0, 0>>
    ELSE IF text \in {S_age, S_years_old} THEN <<0, 9, 1, 0, 0>>
    ELSE IF text \in {S_city, S_location_city} THEN <<0, 0, 9, 1, 0>>
    ELSE IF text \in {S_country, S_location_country} THEN <<0, 0, 1, 9, 0>>
    ELSE IF text = S_location THEN <<0, 0, 7, 3, 0>>
    ELSE <<2, 2, 2, 2, 2>>

get_embeddings(texts) == [i \in 1..Len(texts) |-> Embedding(texts[i])]

\* lib.rs 25-27
calculate_embeddings(texts) == get_embeddings(texts)

(***************************************************************************)
(* Matcher.                                                                *)
(***************************************************************************)
\* Mutation of insert_nested: only the last path segment is used (as
\* get_last_key_part, lib.rs 4-6, would give).
InsertLastPart(value, parts, new_value) ==
    Obj(MapInsert(IF is_object(value) THEN value.val ELSE EmptyMap,
                  parts[Len(parts)], new_value))

\* lib.rs 124-141
RECURSIVE insert_nested(_, _, _)
insert_nested(value, parts, new_value) ==
    IF Len(parts) = 1
    THEN IF is_object(value) THEN Obj(MapInsert(value.val, parts[1], new_value))
         ELSE Obj(MapInsert(EmptyMap, parts[1], new_value))
    ELSE LET current == IF is_object(value) THEN value ELSE EmptyObject
             entry == IF parts[1] \in DOMAIN current.val THEN current.val[parts[1]]
                      ELSE EmptyObject
         IN Obj(MapInsert(current.val, parts[1],
                          insert_nested(entry, Tail(parts), new_value)))

\* lib.rs 160-162
RECURSIVE IndexPath(_, _)
IndexPath(current, parts) ==
    IF parts = <<>> THEN current
    ELSE IndexPath(ValueIndex(current, Head(parts)), Tail(parts))

\* lib.rs 156-166: the value copied for a matched source key.  HashMap's
\* Index panics when the first segment of a dotted key is no key of flat_source.
SourceValue(flat, source_key) ==
    IF ContainsDot(source_key)
    THEN LET parts == Split(source_key)
         IN IF parts[1] \notin DOMAIN flat THEN Panicked
            ELSE IndexPath(flat[parts[1]], Tail(parts))
    ELSE IF source_key \in DOMAIN flat THEN flat[source_key] ELSE Null

\* Mutation of Unused: the used set is not consulted.
UnusedIgnored(used, source_key) == TRUE

\* lib.rs 154: may this source key still be assigned?
Unused(used, source_key) == source_key \notin used

\* Mutation of LoopBody: a target key whose best source key is taken falls
\* back to the best source key still unused.
LoopBodyFallback(st, threshold, flat, skeys, tkeys, sembs, tembs, i) ==
    LET target_key == tkeys[i]
        free == {j \in 1..Len(skeys) : skeys[j] \notin st.used}
        sim(j) == cosine_similarity(tembs[i], sembs[j])
        good == {j \in free : /\ GeThreshold(sim(j), threshold)
                              /\ \A k \in free : Compare(sim(k), sim(j)) # "Greater"}
    IN IF good = {}
       THEN [st EXCEPT
               !.transformed = insert_nested(st.transformed, Split(target_key), Null),
               !.matched = Append(st.matched, [target |-> target_key, source |-> None])]
       ELSE LET source_key == skeys[CHOOSE j \in good : TRUE]
                value == SourceValue(flat, source_key)
            IN IF value = Panicked THEN [st EXCEPT !.panicked = TRUE]
               ELSE [transformed |-> insert_nested(st.transformed, Split(target_key), value),
                     used |-> st.used \cup {source_key},
                     matched |-> Append(st.matched, [target |-> target_key,
                                                     source |-> Some(source_key)]),
                     panicked |-> FALSE]

\* lib.rs 171, 175, 179: null is stored for the target key
NullStep(st, target_key) ==
    [st EXCEPT !.transformed = insert_nested(st.transformed, Split(target_key), Null),
               !.matched = Append(st.matched, [target |-> target_key, source |-> None])]

\* lib.rs 155-168: the source key's value is stored for the target key, unless
\* looking it up panicked
AssignStep(st, target_key, source_key, value) ==
    IF value = Panicked THEN [st EXCEPT !.panicked = TRUE]
    ELSE [transformed |-> insert_nested(st.transformed, Split(target_key), value),
          used |-> st.used \cup {source_key},
          matched |-> Append(st.matched, [target |-> target_key,
                                          source |-> Some(source_key)]),
          panicked |-> FALSE]

\* lib.rs 152-176: the branches on the closest match
MatchStep(st, flat, skeys, target_key, closest_match_idx) ==
    IF closest_match_idx # None
    THEN IF Unused(st.used, skeys[closest_match_idx[1] + 1])
         THEN AssignStep(st, target_key, skeys[closest_match_idx[1] + 1],
                         SourceValue(flat, skeys[closest_match_idx[1] + 1]))
         ELSE NullStep(st, target_key)
    ELSE NullStep(st, target_key)

\* lib.rs 147-181: the body of the target loop for target_keys[i], on the
\* loop's state st = [transformed, used, matched, panicked].
LoopBody(st, threshold, flat, skeys, tkeys, sembs, tembs, i) ==
    IF i <= Len(tembs)
    THEN MatchStep(st, flat, skeys, tkeys[i],
                   find_closest_match(threshold, tembs[i], sembs))
    ELSE NullStep(st, tkeys[i])

\* lib.rs 144-181: the target loop run to its end (or to a panic) from the
\* loop state st at position i.
RECURSIVE RunFrom(_, _, _, _, _, _)
RunFrom(st, threshold, flat, skeys, tkeys, i) ==
    IF st.panicked \/ i > Len(tkeys) THEN st
    ELSE RunFrom(LoopBody(st, threshold, flat, skeys, tkeys,
                          calculate_embeddings(skeys), calculate_embeddings(tkeys), i),
                 threshold, flat, skeys, tkeys, i + 1)

\* lib.rs 121, 144: the loop's state before its first iteration
LoopStart == [transformed |-> EmptyObject, used |-> {}, matched |-> <<>>,
              panicked |-> FALSE]

(***************************************************************************)
(* The inputs checked.                                                     *)
(***************************************************************************)
\* The objects with at most MaxMembers members, named from `names`, with
\* values from `values`.
ObjectsOver(names, values) ==
    {Obj(m) : m \in UNION {[d -> values] :
                             d \in {e \in SUBSET names : Cardinality(e) <= MaxMembers}}}

\* 0.95 is the threshold of test_shapeshift, 1.1 an unattainable one; 0.99
\* and 0.4 separate the similarities the mock table yields.
Thresholds == {40, 95, 99, 110}

\* test_shapeshift's source and target (lib.rs 261-273)
RenameSource ==
    Obj((S_name :> Str("John Doe")) @@ (S_age :> Num(30)) @@ (S_city :> Str("New York")))
RenameTarget ==
    Obj((S_full_name :> Str("")) @@ (S_years_old :> Num(0)) @@
        (S_location :> Obj((S_city :> Str("")) @@ (S_country :> Str("")))))

SourceLeaves == {Str("John Doe")}
SourceObjs ==
    ObjectsOver({S_city, S_location, S_address},
                SourceLeaves \cup ObjectsOver({S_city}, {Str("New York")}))
      \cup {RenameSource}

\* A target whose one key is unknown to the mock embedding table.
UnknownKeyTarget == Obj(S_x :> Num(1))

TargetLeaves == {Str(""), Arr(<<>>)}
TargetObjs ==
    ObjectsOver({S_city, S_location},
                TargetLeaves \cup ObjectsOver({S_city, S_country}, {Str("")}))
      \cup {RenameTarget, UnknownKeyTarget}

(***************************************************************************)
(* shapeshift, lib.rs 96-195.                                              *)
(***************************************************************************)
Init ==
    /\ source_obj \in SourceObjs
    /\ target_obj \in TargetObjs
    /\ similarity_threshold \in Thresholds
    /\ flat_source = EmptyMap
    /\ flat_target = EmptyMap
    /\ source_keys = <<>>
    /\ target_keys = <<>>
    /\ source_embeddings = <<>>
    /\ target_embeddings = <<>>
    /\ transformed = EmptyObject
    /\ used_source_keys = {}
    /\ target_idx = 1
    /\ matched = <<>>
    /\ unflattened = Null
    /\ source_embedding = <<>>
    /\ closest_match = None
    /\ pc = "start"

\* lib.rs 100-144: flatten, collect the keys, embed, set up the loop
Prepare ==
    /\ pc = "start"
    /\ flat_source' = flatten_object(source_obj)
    /\ flat_target' = flatten_object(target_obj)
    /\ source_keys' \in Orders(DOMAIN flat_source')
    /\ target_keys' \in Orders(DOMAIN flat_target')
    /\ source_embeddings' = calculate_embeddings(source_keys')
    /\ target_embeddings' = calculate_embeddings(target_keys')
    /\ transformed' = EmptyObject
    /\ used_source_keys' = {}
    /\ target_idx' = 1
    /\ pc' = "loop"
    /\ UNCHANGED <<source_obj, target_obj, similarity_threshold, matched,
                   unflattened, source_embedding, closest_match>>

\* lib.rs 147-181: one iteration of the target loop
LoopStep ==
    /\ pc = "loop"
    /\ target_idx <= Len(target_keys)
    /\ LET st == [transformed |-> transformed, used |-> used_source_keys,
                  matched |-> matched, panicked |-> FALSE]
       IN \E r \in {LoopBody(st, similarity_threshold, flat_source, source_keys,
                         target_keys, source_embeddings, target_embeddings, target_idx)} :
          IF r.panicked
          THEN /\ pc' = "panicked"
               /\ UNCHANGED <<transformed, used_source_keys, matched, target_idx>>
          ELSE /\ transformed' = r.transformed
               /\ used_source_keys' = r.used
               /\ matched' = r.matched
               /\ target_idx' = target_idx + 1
               /\ pc' = "loop"
    /\ UNCHANGED <<source_obj, target_obj, similarity_threshold, flat_source,
                   flat_target, source_keys, target_keys, source_embeddings,
                   target_embeddings, unflattened, source_embedding, closest_match>>

\* lib.rs 183-194: the loop is over, the result is returned
Return ==
    /\ pc = "loop"
    /\ target_idx > Len(target_keys)
    /\ pc' = "done"
    /\ UNCHANGED <<source_obj, target_obj, similarity_threshold, flat_source,
                   flat_target, source_keys, target_keys, source_embeddings,
                   target_embeddings, transformed, used_source_keys, target_idx,
                   matched, unflattened, source_embedding, closest_match>>

Next == Prepare \/ LoopStep \/ Return

Spec == Init /\ [][Next]_vars

(***************************************************************************)
(* test_flatten_and_unflatten, lib.rs 217-234: flatten a value, unflatten  *)
(* the flat map.                                                           *)
(***************************************************************************)
S_street == <<"s", "t", "r", "e", "e", "t">>

\* lib.rs 220-228
TestObject ==
    Obj((S_name :> Str("John Doe")) @@ (S_age :> Num(30)) @@
        (S_address :> Obj((S_street :> Str("123 Main St")) @@
                          (S_city :> Str("Anytown")) @@
                          (S_country :> Str("USA")))))

FlattenLeaves == {Num(30), Null}
FlattenValues ==
    FlattenLeaves
      \cup ObjectsOver({S_a, S_b, S_a_b, EmptyString},
                       FlattenLeaves \cup ObjectsOver({S_a, S_b}, FlattenLeaves))
      \cup {TestObject}

InitFlatten ==
    /\ source_obj \in FlattenValues
    /\ target_obj = Null
    /\ similarity_threshold = 80
    /\ flat_source = EmptyMap
    /\ flat_target = EmptyMap
    /\ source_keys = <<>>
    /\ target_keys = <<>>
    /\ source_embeddings = <<>>
    /\ target_embeddings = <<>>
    /\ transformed = EmptyObject
    /\ used_source_keys = {}
    /\ target_idx = 1
    /\ matched = <<>>
    /\ unflattened = Null
    /\ source_embedding = <<>>
    /\ closest_match = None
    /\ pc = "start"

\* lib.rs 230
Flatten ==
    /\ pc = "start"
    /\ flat_source' = flatten_object(source_obj)
    /\ pc' = "flattened"
    /\ UNCHANGED <<source_obj, target_obj, similarity_threshold, flat_target,
                   source_keys, target_keys, source_embeddings, target_embeddings,
                   transformed, used_source_keys, target_idx, matched, unflattened,
                   source_embedding, closest_match>>

\* lib.rs 231: unflatten_object walks the HashMap in its iteration order
Unflatten ==
    /\ pc = "flattened"
    /\ \E order \in Orders(DOMAIN flat_source) :
         LET r == unflatten_object(flat_source, order)
         IN IF r = Panicked
            THEN pc' = "panicked" /\ unflattened' = unflattened
            ELSE pc' = "unflattened" /\ unflattened' = r
    /\ UNCHANGED <<source_obj, target_obj, similarity_threshold, flat_source,
                   flat_target, source_keys, target_keys, source_embeddings, target_embeddings,
                   transformed, used_source_keys, target_idx, matched,
                   source_embedding, closest_match>>

NextFlatten == Flatten \/ Unflatten

SpecFlatten == InitFlatten /\ [][NextFlatten]_vars

(***************************************************************************)
(* test_find_closest_match, lib.rs 245-256: one call of find_closest_match *)
(* on a query vector and a list of candidate vectors.                      *)
(***************************************************************************)
Vectors == [1..2 -> {-1, 0, 1}]

CandidateLists == UNION {[1..n -> Vectors] : n \in 0..MaxCandidates}

InitMatch ==
    /\ source_embedding \in Vectors
    /\ target_embeddings \in CandidateLists
    /\ similarity_threshold \in {0, 80, 100}
    /\ source_obj = Null
    /\ target_obj = Null
    /\ flat_source = EmptyMap
    /\ flat_target = EmptyMap
    /\ source_keys = <<>>
    /\ target_keys = <<>>
    /\ source_embeddings = <<>>
    /\ transformed = EmptyObject
    /\ used_source_keys = {}
    /\ target_idx = 1
    /\ matched = <<>>
    /\ unflattened = Null
    /\ closest_match = None
    /\ pc = "start"

\* lib.rs 254
FindClosestMatch ==
    /\ pc = "start"
    /\ closest_match' = find_closest_match(similarity_threshold, source_embedding,
                                           target_embeddings)
    /\ pc' = "done"
    /\ UNCHANGED <<source_obj, target_obj, similarity_threshold, flat_source,
                   flat_target, source_keys, target_keys, source_embeddings,
                   target_embeddings, transformed, used_source_keys, target_idx,
                   matched, unflattened, source_embedding>>

NextMatch == FindClosestMatch

SpecMatch == InitMatch /\ [][NextMatch]_vars

(***************************************************************************)
(* Properties of shapeshift (specification Spec).                          *)
(***************************************************************************)
\* The source keys assigned to the target keys processed before the j-th.
AssignedBefore(j) ==
    {matched[k].source[1] : k \in {n \in 1..(j - 1) : matched[n].source # None}}

\* The source key find_closest_match selects for the j-th target key, if any.
BestKey(j) ==
    LET c == find_closest_match(similarity_threshold, target_embeddings[j],
                                source_embeddings)
    IN IF c = None THEN None ELSE Some(source_keys[c[1] + 1])

\* C1 (injectivity): at every step of the target loop no source key is the
\* origin of two target keys, used_source_keys is exactly the set of source
\* keys assigned so far, and one log entry exists per processed target key.
InjectiveAssignment ==
    pc \in {"loop", "done", "panicked"} =>
      /\ Len(matched) = target_idx - 1
      /\ \A i, j \in 1..Len(matched) :
           (i < j /\ matched[i].source # None) => matched[j].source # matched[i].source
      /\ used_source_keys = AssignedBefore(Len(matched) + 1)
      /\ \A j \in 1..Len(matched) :
           matched[j].source # None => matched[j].source[1] \notin AssignedBefore(j)

\* C1 witness: the call returned, and a target key was refused the source key
\* an earlier target key had been given.
InjectiveAssignmentWitness ==
    /\ pc = "done"
    /\ \E i, j \in 1..Len(matched) :
         /\ i < j
         /\ matched[i].source # None
         /\ BestKey(j) = matched[i].source
         /\ matched[j].source = None

\* C6 (graceful degradation): with a source without leaves, a target without
\* leaves or a threshold that no similarity reaches (1.1, or one above every
\* similarity of the call) the call never panics; with no source leaf or no
\* similarity reaching the threshold every target leaf
\* path holds null in the result and nothing else is in it; with no target
\* leaf the result is the empty object; source {} and target {"x": 1} give
\* {"x": null}.
GracefulDegradation ==
    pc \in {"done", "panicked"} =>
      LET no_source == flat_source = EmptyMap
          no_target == flat_target = EmptyMap
          unattainable ==
              \/ similarity_threshold > 100
              \/ \A j \in 1..Len(target_embeddings), i \in 1..Len(source_embeddings) :
                    ~GeThreshold(cosine_similarity(target_embeddings[j],
                                                   source_embeddings[i]),
                                 similarity_threshold)
      IN (no_source \/ no_target \/ unattainable) =>
           /\ pc # "panicked"
           /\ (no_source \/ unattainable) =>
                /\ \A k \in DOMAIN flat_target : IndexPath(transformed, Split(k)) = Null
                /\ \A flat_result \in {flatten_object(transformed)} :
                     /\ DOMAIN flat_result = DOMAIN flat_target
                     /\ \A k \in DOMAIN flat_result : flat_result[k] = Null
           /\ no_target => transformed = EmptyObject
           /\ (source_obj = EmptyObject /\ target_obj = UnknownKeyTarget)
                => transformed = Obj(S_x :> Null)

\* C6 witness: a call with source leaves and target leaves returned under the
\* unattainable threshold 1.1.
GracefulDegradationWitness ==
    /\ pc = "done"
    /\ similarity_threshold = 110
    /\ source_keys # <<>>
    /\ Len(target_keys) >= 2
    /\ \A j \in 1..Len(matched) : matched[j].source = None

\* C7 (no fallback): a step of the loop whose selected source key is already
\* used logs null for its target key, stores null at the target path and
\* leaves the used set alone; no step changes an earlier entry of the log.
NoFallback ==
    [][/\ \A j \in 1..Len(matched) : j <= Len(matched') /\ matched'[j] = matched[j]
       /\ (/\ pc = "loop"
           /\ target_idx <= Len(target_keys)
           /\ BestKey(target_idx) # None
           /\ BestKey(target_idx)[1] \in used_source_keys)
          => /\ pc' = "loop"
             /\ matched' = Append(matched, [target |-> target_keys[target_idx],
                                            source |-> None])
             /\ used_source_keys' = used_source_keys
             /\ IndexPath(transformed', Split(target_keys[target_idx])) = Null]_vars

\* C7 witness: a target key was given null because its selected source key was
\* taken, while another source key, unused, had similarity >= the threshold.
NoFallbackWitness ==
    \E j \in 1..Len(matched) :
      /\ matched[j].source = None
      /\ BestKey(j) # None
      /\ BestKey(j)[1] \in AssignedBefore(j)
      /\ \E i \in 1..Len(source_keys) :
           /\ source_keys[i] \notin AssignedBefore(j)
           /\ GeThreshold(cosine_similarity(target_embeddings[j], source_embeddings[i]),
                          similarity_threshold)

\* A second call on the same flat maps and key orders, under another threshold.
ShapeshiftAt(threshold) ==
    RunFrom(LoopStart, threshold, flat_source, source_keys, target_keys, 1)

\* C2 as claimed (threshold monotonicity): every target key matched under a
\* higher threshold is matched under the call's threshold.
ThresholdMonotone ==
    pc = "done" =>
      \A t2 \in {t \in Thresholds : t > similarity_threshold} :
        \A r \in {ShapeshiftAt(t2)} :
          ~r.panicked =>
             \A j \in 1..Len(target_keys) :
               r.matched[j].source # None => matched[j].source # None

\* C2 as amended: raising the threshold never adds a source key to those
\* assigned (nor a panic), and a target key matched under the higher threshold
\* is matched to the same source key under the lower one, unless an earlier
\* target key, unmatched under the higher threshold, claimed that source key.
ThresholdMonotoneSources ==
    pc = "done" =>
      \A t2 \in {t \in Thresholds : t > similarity_threshold} :
        \A r \in {ShapeshiftAt(t2)} :
           /\ ~r.panicked
           /\ r.used \subseteq used_source_keys
           /\ \A j \in 1..Len(target_keys) :
                r.matched[j].source # None =>
                  \/ matched[j].source = r.matched[j].source
                  \/ /\ matched[j].source = None
                     /\ \E e \in 1..(j - 1) :
                          /\ matched[e].source = r.matched[j].source
                          /\ r.matched[e].source = None

\* C2 witness: a call returned; a higher threshold assigns fewer source keys,
\* and matches a target key that the call left null.
ThresholdMonotoneWitness ==
    /\ pc = "done"
    /\ \E t2 \in {t \in Thresholds : t > similarity_threshold} :
         \E r \in {ShapeshiftAt(t2)} :
            /\ ~r.panicked
            /\ r.used # {}
            /\ r.used # used_source_keys
            /\ \E j \in 1..Len(target_keys) :
                 r.matched[j].source # None /\ matched[j].source = None

\* The leaf values of a value.
RECURSIVE Leaves(_)
Leaves(v) ==
    IF is_object(v) THEN UNION {Leaves(v.val[k]) : k \in DOMAIN v.val} ELSE {v}

\* The nested object skeleton of a value: its objects, with every leaf blanked.
RECURSIVE Skeleton(_)
Skeleton(v) ==
    IF is_object(v) THEN Obj([k \in DOMAIN v.val |-> Skeleton(v.val[k])]) ELSE Null

\* A value without the members that hold no leaf.
RECURSIVE Prune(_)
Prune(v) ==
    IF is_object(v)
    THEN Obj([k \in {m \in DOMAIN v.val : Leaves(v.val[m]) # {}} |-> Prune(v.val[k])])
    ELSE v

\* Every member name, at every level, is non-empty and free of '.'.
RECURSIVE PlainNames(_)
PlainNames(v) ==
    is_object(v) =>
      \A k \in DOMAIN v.val : k # EmptyString /\ ~ContainsDot(k) /\ PlainNames(v.val[k])

SourceLeafValues == {flat_source[k] : k \in DOMAIN flat_source}

\* C5 as claimed (result shape): the result has the target's skeleton, empty
\* object members included, and its leaves are null or source leaf values.
ResultShape ==
    (pc = "done" /\ is_object(target_obj)) =>
      /\ Skeleton(transformed) = Skeleton(target_obj)
      /\ Leaves(transformed) \subseteq {Null} \cup SourceLeafValues

\* C5 as amended: for a target with plain member names, a returned result has
\* the skeleton of the target without its members that hold no leaf; its leaf
\* paths are the target's flat keys; its leaves are null or source leaf values.
ResultShapePruned ==
    (pc = "done" /\ is_object(target_obj) /\ PlainNames(target_obj)) =>
      /\ Skeleton(transformed) = Skeleton(Prune(target_obj))
      /\ DOMAIN flatten_object(transformed) = DOMAIN flatten_object(target_obj)
      /\ Leaves(transformed) \subseteq {Null} \cup SourceLeafValues

\* C5 witness: a call returned for a target with an empty object member and
\* another, nested, leaf, which a source value fills.
ResultShapeWitness ==
    /\ pc = "done"
    /\ \E k \in DOMAIN target_obj.val : target_obj.val[k] = EmptyObject
    /\ \E j \in 1..Len(matched) :
         matched[j].source # None /\ ContainsDot(matched[j].target)

\* C4 as claimed (match assignment): the call does not fail on a target key
\* whose selected source key is unused, and the result holds that source
\* leaf's value at the target key's path.
MatchAssignment ==
    /\ pc = "panicked" =>
         ~(BestKey(target_idx) # None /\ BestKey(target_idx)[1] \notin used_source_keys)
    /\ pc = "done" =>
         \A j \in 1..Len(target_keys) :
           (BestKey(j) # None /\ BestKey(j)[1] \notin AssignedBefore(j)) =>
             IndexPath(transformed, Split(target_keys[j])) = flat_source[BestKey(j)[1]]

\* The flat keys of a value in its depth-first, key-order traversal.
RECURSIVE TraversalFrom(_, _, _)
TraversalFrom(v, keys, prefix) ==
    IF ~is_object(v) THEN <<prefix>>
    ELSE IF keys = <<>> THEN <<>>
    ELSE LET key == Head(keys)
             member == v.val[key]
             new_prefix == IF prefix = EmptyString THEN key ELSE prefix \o Dot \o key
         IN TraversalFrom(member,
                          IF is_object(member) THEN SortedKeys(DOMAIN member.val) ELSE <<>>,
                          new_prefix)
              \o TraversalFrom(v, Tail(keys), prefix)

TraversalKeys(v) ==
    TraversalFrom(v, IF is_object(v) THEN SortedKeys(DOMAIN v.val) ELSE <<>>, EmptyString)

\* C8 as claimed (processing order): the result of a call is the one obtained
\* by visiting the source and target keys in traversal order, whatever the call.
TraversalOrderResult ==
    pc = "done" =>
      \A r \in {RunFrom(LoopStart, similarity_threshold, flat_source,
                       TraversalKeys(source_obj), TraversalKeys(target_obj), 1)} :
        ~r.panicked => transformed = r.transformed

(***************************************************************************)
(* Properties of the flattener (specification SpecFlatten).                *)
(***************************************************************************)
\* C3 as claimed (round trip): unflatten(flatten(v)) is v, without failure.
RoundTrip ==
    /\ pc # "panicked"
    /\ pc = "unflattened" => unflattened = source_obj

\* No object nested in the value is empty.
RECURSIVE NoEmptyNested(_)
NoEmptyNested(v) ==
    is_object(v) =>
      \A k \in DOMAIN v.val : v.val[k] # EmptyObject /\ NoEmptyNested(v.val[k])

\* C3 as amended: the round trip holds for an object whose nested objects are
\* non-empty and whose member names are non-empty and free of '.'.
RoundTripPlain ==
    (is_object(source_obj) /\ PlainNames(source_obj) /\ NoEmptyNested(source_obj)) =>
      /\ pc # "panicked"
      /\ pc = "unflattened" => unflattened = source_obj

\* C3 witness: an object with a nested object member went through flatten and
\* unflatten and came back equal.
RoundTripWitness ==
    /\ pc = "unflattened"
    /\ is_object(source_obj) /\ PlainNames(source_obj) /\ NoEmptyNested(source_obj)
    /\ \E k \in DOMAIN source_obj.val : is_object(source_obj.val[k])
    /\ \E k \in DOMAIN flat_source : ContainsDot(k)
    /\ unflattened = source_obj

(***************************************************************************)
(* Properties of find_closest_match (specification SpecMatch).             *)
(***************************************************************************)
Similarity(i) == cosine_similarity(source_embedding, target_embeddings[i])

\* The candidates of maximum similarity to the query.
MaxCandidateIdx ==
    {i \in 1..Len(target_embeddings) :
       \A k \in 1..Len(target_embeddings) :
         partial_cmp(Similarity(k), Similarity(i)) # "Greater"}

\* C9 as claimed (best-match selection), for similarities that are all
\* defined: the result is the first candidate of maximum similarity when that
\* maximum is >= the threshold, and None otherwise.
BestMatchFirst ==
    (pc = "done" /\ \A i \in 1..Len(target_embeddings) : ~is_nan(Similarity(i))) =>
      closest_match =
        IF \E i \in MaxCandidateIdx : GeThreshold(Similarity(i), similarity_threshold)
        THEN Some((CHOOSE i \in MaxCandidateIdx : \A k \in MaxCandidateIdx : i <= k) - 1)
        ELSE None

IsZeroVector(v) == \A i \in 1..Len(v) : v[i] = 0

\* The positions of the candidates that are not the zero vector, ascending.
RECURSIVE NonZeroFrom(_)
NonZeroFrom(i) ==
    IF i > Len(target_embeddings) THEN <<>>
    ELSE (IF IsZeroVector(target_embeddings[i]) THEN <<>> ELSE <<i>>) \o NonZeroFrom(i + 1)

\* C10 as claimed (degenerate vectors): no similarity with a zero vector is
\* NaN, and the zero-norm candidates do not change the selection: a candidate
\* selected among the others is the one selected among all.
DegenerateVectors ==
    pc = "done" =>
      /\ \A i \in 1..Len(target_embeddings) :
           (IsZeroVector(source_embedding) \/ IsZeroVector(target_embeddings[i]))
             => ~is_nan(Similarity(i))
      /\ LET nz == NonZeroFrom(1)
             others == find_closest_match(similarity_threshold, source_embedding,
                                          [n \in 1..Len(nz) |-> target_embeddings[nz[n]]])
         IN others # None => closest_match = Some(nz[others[1] + 1] - 1)

====
